---- MODULE Spec2Model ----
(***************************************************************************)
(* A model of two React components of reagraph:                            *)
(*                                                                         *)
(*   GraphRenderer (src/src/GraphRenderer.tsx): the imperative handle      *)
(*   centerGraph and the click handler of a rendered node;                 *)
(*                                                                         *)
(*   Controls (src/unnamed/part_000): the camera-controls bindings: the    *)
(*   mode/Space handling of the left mouse button, the pan handles, the    *)
(*   listener registration effects and the dispose effect.                 *)
(*                                                                         *)
(* The two components share no state. SpecRenderer is GraphRenderer; Spec  *)
(* is Controls with its key, lifecycle and camera events; SpecPan is       *)
(* Controls with its pan handles and arrow key hold events.                *)
(***************************************************************************)
EXTENDS Integers, Sequences, FiniteSets, TLC

(***************************************************************************)
(* Bounds of the model.                                                    *)
(***************************************************************************)
\* longest node list of the graph
MaxNodes == 2
\* longest id list handed to centerGraph
MaxIds == 3

\* ids a node of the graph, or an id handed to centerGraph, may have
NodeIds == {"a", "b", "c"}
\* the remaining data of a node object (GraphNode carries more than its id)
NodeLabels == {"L1", "L2"}

VARIABLES
    \* ---- GraphRenderer ----
    nodes,          \* the nodes useGraph returned to the latest render
    onNodeClick,    \* whether the host passed the onNodeClick prop
    call,           \* the handler invoked last and its argument
    log,            \* the calls that handler made, in order
    thrown,         \* the error that handler ended in, if any
    \* ---- Controls ----
    phase,          \* "init" (not yet mounted), "mounted", "unmounted"
    mode,           \* the mode prop of the latest render
    animated,       \* the animated prop of the latest render
    controls,       \* whether useControls() returned a controls object
    cameraRef,      \* cameraRef.current: Null or the instance
    left,           \* the instance's mouseButtons.left
    renderGen,      \* number of renders so far
    cbs,            \* the callbacks of the latest render
    effCbs,         \* the callbacks the key listener effect last captured
    modeDep,        \* the mode the mode effect last ran for
    camDep,         \* the deps the update/control effect last ran for
    effectsPending, \* a render is committed and its effects have not run
    listeners,      \* listeners of the hold emitters and of window
    camListeners,   \* listeners of the instance's update and control events
    spaceDown,      \* the Space key is physically down
    spaceHandled,   \* a Space keydown was handled and its keyup was not
    truck,          \* net displacement asked of the instance by truck()
    panCount,       \* calls of each pan handle so far
    holdEvents,     \* 'holding' events dispatched so far
    invalidates,    \* calls of invalidate() so far
    disposeCalls,   \* calls of the instance's dispose() so far
    frames          \* calls of the instance's update(delta) so far

rendererVars == <<nodes, onNodeClick, call, log, thrown>>

controlsVars ==
    <<phase, mode, animated, controls, cameraRef, left, renderGen, cbs,
      effCbs, modeDep, camDep, effectsPending, listeners, camListeners,
      spaceDown, spaceHandled, truck, panCount, holdEvents, invalidates,
      disposeCalls, frames>>

vars == <<rendererVars, controlsVars>>

(***************************************************************************)
(* GraphRenderer                                                           *)
(***************************************************************************)
Range(s) == {s[i] : i \in 1..Len(s)}

\* sequences over S of length at most n
SeqUpTo(S, n) == UNION {[1..k -> S] : k \in 0..n}

\* node lists useGraph can return: node objects with pairwise distinct ids
GraphNodeLists ==
    {ns \in SeqUpTo([id : NodeIds, label : NodeLabels], MaxNodes) :
        \A i, j \in 1..Len(ns) : ns[i].id = ns[j].id => i = j}

\* nodes.find(n => n.id === id): the first node with that id, as a list of
\* zero (undefined) or one node
Find(ns, id) ==
    LET hits == {i \in 1..Len(ns) : ns[i].id = id}
    IN  IF hits = {} THEN <<>>
        ELSE <<ns[CHOOSE i \in hits : \A j \in hits : i <= j]>>

\* a slip: acc.unshift(node)
PushFront(acc, node) == <<node>> \o acc

\* acc.push(node)
Push(acc, node) == Append(acc, node)

NoError == [raised |-> FALSE, id |-> ""]
NotFound(id) == [raised |-> TRUE, id |-> id]

\* a slip: the else branch that throws is missing, an id not found is skipped
RECURSIVE ReduceSkipMissing(_, _, _, _)
ReduceSkipMissing(ids, ns, i, acc) ==
    IF i > Len(ids) THEN [acc |-> acc, error |-> NoError]
    ELSE LET node == Find(ns, ids[i])
         IN  ReduceSkipMissing(ids, ns, i + 1,
                 IF node # <<>> THEN Push(acc, node[1]) ELSE acc)

\* nodesToCenter.reduce((acc, id) => ..., []): the accumulator after the
\* ids from position i on, or the error thrown at the first id not found
RECURSIVE Reduce(_, _, _, _)
Reduce(ids, ns, i, acc) ==
    IF i > Len(ids) THEN [acc |-> acc, error |-> NoError]
    ELSE LET node == Find(ns, ids[i])
         IN  IF node # <<>>
             THEN Reduce(ids, ns, i + 1, Push(acc, node[1]))
             ELSE [acc |-> acc, error |-> NotFound(ids[i])]

\* nodesToCenter || nodes: an array, empty or not, is truthy; undefined is not
OrNodes(given, list, ns) == IF given THEN list ELSE ns

CenterNodesCall(list) == [fn |-> "centerNodes", id |-> "", list |-> list]
OnNodeClickCall(id) == [fn |-> "onNodeClick", id |-> id, list |-> <<>>]

\* what one call of centerGraph does: the calls it makes and the error it
\* ends in. given = FALSE is a call without argument (undefined).
CenterGraphResult(given, ids, ns) ==
    IF given /\ Len(ids) # 0
    THEN LET r == Reduce(ids, ns, 1, <<>>)
         IN  IF r.error.raised
             THEN [log |-> <<>>, thrown |-> r.error]
             ELSE [log |-> <<CenterNodesCall(OrNodes(TRUE, r.acc, ns))>>,
                   thrown |-> NoError]
    ELSE [log |-> <<CenterNodesCall(OrNodes(given, ids, ns))>>,
          thrown |-> NoError]

\* a slip: the node is centered before the host is told
NodeClickLogCenterFirst(n, provided) ==
    <<CenterNodesCall(<<n>>)>>
        \o (IF provided THEN <<OnNodeClickCall(n.id)>> ELSE <<>>)

\* what the onClick of the Node rendered for n does
NodeClickLog(n, provided) ==
    (IF provided THEN <<OnNodeClickCall(n.id)>> ELSE <<>>)
        \o <<CenterNodesCall(<<n>>)>>

NoCall == [op |-> "none", given |-> FALSE, ids |-> <<>>, node |-> <<>>]

InitRenderer ==
    /\ nodes \in GraphNodeLists
    /\ onNodeClick \in BOOLEAN
    /\ call = NoCall
    /\ log = <<>>
    /\ thrown = NoError

\* a render of GraphRenderer with new props
RenderGraph ==
    /\ \E ns \in GraphNodeLists, cb \in BOOLEAN :
          /\ <<ns, cb>> # <<nodes, onNodeClick>>
          /\ nodes' = ns
          /\ onNodeClick' = cb
    /\ call' = NoCall
    /\ log' = <<>>
    /\ thrown' = NoError
    /\ UNCHANGED controlsVars

\* ref.current.centerGraph(ids)
CenterGraphIds ==
    \E ids \in SeqUpTo(NodeIds, MaxIds) :
        LET r == CenterGraphResult(TRUE, ids, nodes)
        IN  /\ call' = [op |-> "centerGraph", given |-> TRUE, ids |-> ids,
                        node |-> <<>>]
            /\ log' = r.log
            /\ thrown' = r.thrown
            /\ UNCHANGED <<nodes, onNodeClick, controlsVars>>

\* ref.current.centerGraph()
CenterGraphAll ==
    LET r == CenterGraphResult(FALSE, <<>>, nodes)
    IN  /\ call' = [op |-> "centerGraph", given |-> FALSE, ids |-> <<>>,
                    node |-> <<>>]
        /\ log' = r.log
        /\ thrown' = r.thrown
        /\ UNCHANGED <<nodes, onNodeClick, controlsVars>>

\* a click on the Node rendered for nodes[i]
NodeClick ==
    \E i \in 1..Len(nodes) :
        /\ call' = [op |-> "click", given |-> FALSE, ids |-> <<>>,
                    node |-> <<nodes[i]>>]
        /\ log' = NodeClickLog(nodes[i], onNodeClick)
        /\ thrown' = NoError
        /\ UNCHANGED <<nodes, onNodeClick, controlsVars>>

NextRenderer == RenderGraph \/ CenterGraphIds \/ CenterGraphAll \/ NodeClick

(***************************************************************************)
(* Controls                                                                *)
(***************************************************************************)
\* renders of Controls after which the model stops re-rendering
MaxRenders == 3
\* pan handle calls and 'holding' events, taken together, after which the
\* model stops issuing them
MaxPanCalls == 4
\* frames after which the model stops rendering frames
MaxFrames == 1

Null == "null"
Cam == "cam"
\* CameraControls.ACTION values the component assigns
Actions == {"ROTATE", "TRUCK"}
\* values a host can pass as the mode prop
PropModes == {"undefined", "rotate", "pan"}
\* event.code values of the keyboard events dispatched to window
KeyCodes == {"Space", "KeyA"}
\* event.deltaTime values of the 'holding' events
HoldDeltas == {100}
PanFns == {"panLeft", "panRight", "panUp", "panDown"}
CamEvents == {"update", "control"}

\* truck distance per unit of deltaTime, in hundredths: 0.03
TruckStep == 3
\* the deltaTime the pan handles of the ref and the context pass
HandleDeltaTime == 1

\* Controls.defaultProps
DefaultMode(m) == IF m = "undefined" THEN "rotate" ELSE m

\* the mode effect
ModeAction(m) == IF m = "rotate" THEN "ROTATE" ELSE "TRUCK"

\* onKeyDown of a render with mode m, on the left button action l
OnKeyDown(m, code, l) ==
    IF code = "Space"
    THEN IF m = "rotate" THEN "TRUCK" ELSE "ROTATE"
    ELSE l

\* a slip: keyup restores the default action, whatever the mode
OnKeyUpRotate(m, code, l) ==
    IF code = "Space" THEN "ROTATE" ELSE l

\* onKeyUp of a render with mode m, on the left button action l
OnKeyUp(m, code, l) ==
    IF code = "Space"
    THEN IF m = "rotate" THEN "ROTATE" ELSE "TRUCK"
    ELSE l

\* a callback created by the render numbered g, closing over its props
Cb(fn, g, m, a) == [fn |-> fn, gen |-> g, mode |-> m, animated |-> a]

\* useCallback: the callbacks of render g, given those of the render before;
\* the pan callbacks depend on animated, the key callbacks on mode
RenderCallbacks(prev, g, m, a, first) ==
    LET newPan == first \/ prev.panLeft.animated # a
        newKey == first \/ prev.onKeyDown.mode # m
        pan(fn) == IF newPan THEN Cb(fn, g, m, a) ELSE prev[fn]
        key(fn) == IF newKey THEN Cb(fn, g, m, a) ELSE prev[fn]
    IN  [panLeft |-> pan("panLeft"), panRight |-> pan("panRight"),
         panUp |-> pan("panUp"), panDown |-> pan("panDown"),
         onKeyDown |-> key("onKeyDown"), onKeyUp |-> key("onKeyUp")]

NoCbs == RenderCallbacks(<<>>, 0, "rotate", FALSE, TRUE)

\* addEventListener of window, and of hold-event's and camera-controls'
\* dispatchers: a listener already registered is not registered again
AddListener(ls, cb) == IF cb \in Range(ls) THEN ls ELSE Append(ls, cb)

RemoveListener(ls, cb) == SelectSeq(ls, LAMBDA x : x # cb)

NoListeners ==
    [left |-> <<>>, right |-> <<>>, up |-> <<>>, down |-> <<>>,
     keydown |-> <<>>, keyup |-> <<>>]

\* the body of the key listener effect, run with the callbacks c
KeyListenerSetup(ls, c) ==
    [left |-> AddListener(ls.left, c.panLeft),
     right |-> AddListener(ls.right, c.panRight),
     up |-> AddListener(ls.up, c.panUp),
     down |-> AddListener(ls.down, c.panDown),
     keydown |-> AddListener(ls.keydown, c.onKeyDown),
     keyup |-> AddListener(ls.keyup, c.onKeyUp)]

\* a slip: the cleanup leaves the keyup listener registered
KeyListenerCleanupNoKeyUp(ls, c) ==
    [left |-> RemoveListener(ls.left, c.panLeft),
     right |-> RemoveListener(ls.right, c.panRight),
     up |-> RemoveListener(ls.up, c.panUp),
     down |-> RemoveListener(ls.down, c.panDown),
     keydown |-> RemoveListener(ls.keydown, c.onKeyDown),
     keyup |-> ls.keyup]

\* the cleanup of the key listener effect that ran with the callbacks c
KeyListenerCleanup(ls, c) ==
    [left |-> RemoveListener(ls.left, c.panLeft),
     right |-> RemoveListener(ls.right, c.panRight),
     up |-> RemoveListener(ls.up, c.panUp),
     down |-> RemoveListener(ls.down, c.panDown),
     keydown |-> RemoveListener(ls.keydown, c.onKeyDown),
     keyup |-> RemoveListener(ls.keyup, c.onKeyUp)]

\* the key listener effect on a change of its deps: the cleanup of the run
\* before (eff, empty on mount), then its body
KeyListenerEffect(ls, eff, c) ==
    IF eff # <<>> /\ eff[1] = c THEN ls
    ELSE KeyListenerSetup(
             IF eff = <<>> THEN ls ELSE KeyListenerCleanup(ls, eff[1]), c)

NoCamListeners == [update |-> <<>>, control |-> <<>>]

\* the body of the update/control effect: with ref = cameraRef.current,
\* `if (!ref) { ref.addEventListener(...) }` registers nothing when the
\* instance exists, and throws a TypeError before registering when it does not
CamListenerSetup(cl, ref) ==
    IF ref = Null THEN cl ELSE cl

\* the cleanup of the update/control effect
CamListenerCleanup(cl, ctl) ==
    IF ctl
    THEN [update |-> RemoveListener(cl.update, "invalidate"),
          control |-> RemoveListener(cl.control, "invalidate")]
    ELSE cl

\* the update/control effect on a change of its deps (zoomIn and zoomOut
\* change with animated)
CamListenerEffect(cl, dep, a, ctl, ref) ==
    IF dep # <<>> /\ dep[1] = a THEN cl
    ELSE CamListenerSetup(
             IF dep = <<>> THEN cl ELSE CamListenerCleanup(cl, ctl), ref)

\* a slip: panRight copied from panLeft with the sign left as it was
PanDeltaSameSign(fn, dt) ==
    CASE fn = "panRight" -> [x |-> TruckStep * dt, y |-> 0]
      [] fn = "panLeft" -> [x |-> TruckStep * dt, y |-> 0]
      [] fn = "panUp" -> [x |-> 0, y |-> TruckStep * dt]
      [] fn = "panDown" -> [x |-> 0, y |-> -TruckStep * dt]

\* the arguments x, y of truck() in panLeft, panRight, panUp and panDown
PanDelta(fn, dt) ==
    CASE fn = "panRight" -> [x |-> -TruckStep * dt, y |-> 0]
      [] fn = "panLeft" -> [x |-> TruckStep * dt, y |-> 0]
      [] fn = "panUp" -> [x |-> 0, y |-> TruckStep * dt]
      [] fn = "panDown" -> [x |-> 0, y |-> -TruckStep * dt]

\* cameraRef.current?.truck(x, y, animated) on the net displacement t
Truck(ref, t, d) ==
    IF ref = Null THEN t ELSE [x |-> t.x + d.x, y |-> t.y + d.y]

\* the listeners ls of an event run in order on the left button action l
RECURSIVE RunKeyListeners(_, _, _, _)
RunKeyListeners(ls, i, code, l) ==
    IF i > Len(ls) THEN l
    ELSE RunKeyListeners(ls, i + 1, code,
             IF ls[i].fn = "onKeyDown" THEN OnKeyDown(ls[i].mode, code, l)
             ELSE OnKeyUp(ls[i].mode, code, l))

\* the 'holding' listeners ls run in order on the net displacement t
RECURSIVE RunPanListeners(_, _, _, _, _)
RunPanListeners(ls, i, dt, ref, t) ==
    IF i > Len(ls) THEN t
    ELSE RunPanListeners(ls, i + 1, dt, ref,
             Truck(ref, t, PanDelta(ls[i].fn, dt)))

InitControls ==
    /\ phase = "init"
    /\ mode = "rotate"
    /\ animated = FALSE
    /\ controls \in BOOLEAN
    /\ cameraRef = Null
    /\ left = "ROTATE"
    /\ renderGen = 0
    /\ cbs = NoCbs
    /\ effCbs = <<>>
    /\ modeDep = <<>>
    /\ camDep = <<>>
    /\ effectsPending = FALSE
    /\ listeners = NoListeners
    /\ camListeners = NoCamListeners
    /\ spaceDown = FALSE
    /\ spaceHandled = FALSE
    /\ truck = [x |-> 0, y |-> 0]
    /\ panCount = [fn \in PanFns |-> 0]
    /\ holdEvents = 0
    /\ invalidates = 0
    /\ disposeCalls = 0
    /\ frames = 0

\* the first render and commit of Controls: the cameraControls element is
\* created (its left button action is the library's choice) and cameraRef
\* is attached; the effects are scheduled
Mount ==
    /\ phase = "init"
    /\ \E m \in PropModes, a \in BOOLEAN, l \in Actions :
          /\ mode' = DefaultMode(m)
          /\ animated' = a
          /\ left' = l
          /\ cbs' = RenderCallbacks(cbs, 1, DefaultMode(m), a, TRUE)
    /\ phase' = "mounted"
    /\ renderGen' = 1
    /\ cameraRef' = Cam
    /\ effectsPending' = TRUE
    /\ UNCHANGED <<controls, effCbs, modeDep, camDep, listeners, camListeners,
                   spaceDown, spaceHandled, truck, panCount, holdEvents,
                   invalidates, disposeCalls, frames>>
    /\ UNCHANGED rendererVars

\* a re-render of Controls with changed props (React runs the effects of
\* the render before first)
Render ==
    /\ phase = "mounted"
    /\ ~effectsPending
    /\ renderGen < MaxRenders
    /\ \E m \in PropModes, a \in BOOLEAN :
          /\ <<DefaultMode(m), a>> # <<mode, animated>>
          /\ mode' = DefaultMode(m)
          /\ animated' = a
          /\ cbs' = RenderCallbacks(cbs, renderGen + 1, DefaultMode(m), a, FALSE)
    /\ renderGen' = renderGen + 1
    /\ effectsPending' = TRUE
    /\ UNCHANGED <<phase, controls, cameraRef, left, effCbs, modeDep, camDep,
                   listeners, camListeners, spaceDown, spaceHandled, truck,
                   panCount, holdEvents, invalidates, disposeCalls, frames>>
    /\ UNCHANGED rendererVars

\* the effects of the latest render run: each effect whose deps changed
FlushEffects ==
    /\ phase = "mounted"
    /\ effectsPending
    /\ listeners' = KeyListenerEffect(listeners, effCbs, cbs)
    /\ effCbs' = <<cbs>>
    /\ camListeners' =
          CamListenerEffect(camListeners, camDep, animated, controls, cameraRef)
    /\ camDep' = <<animated>>
    /\ left' = IF modeDep # <<>> /\ modeDep[1] = mode THEN left
               ELSE ModeAction(mode)
    /\ modeDep' = <<mode>>
    /\ effectsPending' = FALSE
    /\ UNCHANGED <<phase, mode, animated, controls, cameraRef, renderGen, cbs,
                   spaceDown, spaceHandled, truck, panCount, holdEvents,
                   invalidates, disposeCalls, frames>>
    /\ UNCHANGED rendererVars

\* a keydown event on window (a held key repeats its keydown)
KeyDownCode(code) ==
    /\ left' = RunKeyListeners(listeners.keydown, 1, code, left)
    /\ spaceDown' = (spaceDown \/ code = "Space")
    /\ spaceHandled' =
          (spaceHandled \/ (code = "Space" /\ listeners.keydown # <<>>))
    /\ UNCHANGED <<phase, mode, animated, controls, cameraRef, renderGen, cbs,
                   effCbs, modeDep, camDep, effectsPending, listeners,
                   camListeners, truck, panCount, holdEvents, invalidates,
                   disposeCalls, frames>>
    /\ UNCHANGED rendererVars

\* a keyup event on window
KeyUpCode(code) ==
    /\ code = "Space" => spaceDown
    /\ left' = RunKeyListeners(listeners.keyup, 1, code, left)
    /\ spaceDown' = (spaceDown /\ code # "Space")
    /\ spaceHandled' = (spaceHandled /\ code # "Space")
    /\ UNCHANGED <<phase, mode, animated, controls, cameraRef, renderGen, cbs,
                   effCbs, modeDep, camDep, effectsPending, listeners,
                   camListeners, truck, panCount, holdEvents, invalidates,
                   disposeCalls, frames>>
    /\ UNCHANGED rendererVars

KeyDown == \E code \in KeyCodes : KeyDownCode(code)

KeyUp == \E code \in KeyCodes : KeyUpCode(code)

\* pan handle calls so far
PanCalls ==
    panCount["panLeft"] + panCount["panRight"] + panCount["panUp"]
        + panCount["panDown"]

\* a pan handle of the ref or the context: values.panLeft() and the like
PanHandle ==
    /\ phase = "mounted"
    /\ PanCalls + holdEvents < MaxPanCalls
    /\ \E fn \in PanFns :
          /\ truck' = Truck(cameraRef, truck, PanDelta(cbs[fn].fn, HandleDeltaTime))
          /\ panCount' = [panCount EXCEPT ![fn] = @ + 1]
    /\ invalidates' = invalidates + 1
    /\ UNCHANGED <<phase, mode, animated, controls, cameraRef, left, renderGen,
                   cbs, effCbs, modeDep, camDep, effectsPending, listeners,
                   camListeners, spaceDown, spaceHandled, holdEvents,
                   disposeCalls, frames>>
    /\ UNCHANGED rendererVars

\* a 'holding' event of one of the four arrow key emitters
Holding ==
    /\ PanCalls + holdEvents < MaxPanCalls
    /\ \E key \in {"left", "right", "up", "down"}, dt \in HoldDeltas :
          /\ truck' = RunPanListeners(listeners[key], 1, dt, cameraRef, truck)
          /\ invalidates' = invalidates + Len(listeners[key])
    /\ holdEvents' = holdEvents + 1
    /\ UNCHANGED <<phase, mode, animated, controls, cameraRef, left, renderGen,
                   cbs, effCbs, modeDep, camDep, effectsPending, listeners,
                   camListeners, spaceDown, spaceHandled, panCount,
                   disposeCalls, frames>>
    /\ UNCHANGED rendererVars

\* an 'update' or 'control' event of the camera-controls instance
CameraEvent ==
    /\ phase = "mounted"
    /\ \E e \in CamEvents :
          invalidates' = invalidates + Len(camListeners[e])
    /\ UNCHANGED <<phase, mode, animated, controls, cameraRef, left, renderGen,
                   cbs, effCbs, modeDep, camDep, effectsPending, listeners,
                   camListeners, spaceDown, spaceHandled, truck, panCount,
                   holdEvents, disposeCalls, frames>>
    /\ UNCHANGED rendererVars

\* a frame of the render loop: the useFrame callback, subscribed while the
\* component is mounted
Frame ==
    /\ phase = "mounted"
    /\ frames < MaxFrames
    /\ frames' = IF cameraRef = Null THEN frames ELSE frames + 1
    /\ UNCHANGED <<phase, mode, animated, controls, cameraRef, left, renderGen,
                   cbs, effCbs, modeDep, camDep, effectsPending, listeners,
                   camListeners, spaceDown, spaceHandled, truck, panCount,
                   holdEvents, invalidates, disposeCalls>>
    /\ UNCHANGED rendererVars

\* cameraRef.current?.dispose() in the cleanup of the dispose effect
Dispose(ref, n) == IF ref = Null THEN n ELSE n + 1

\* Controls unmounts: the cleanups of its effects run. Whether React has
\* already detached cameraRef (set cameraRef.current to null) when the
\* cleanup of a passive effect reads it depends on the React version:
\* either is possible. The update/control cleanup uses the ref captured
\* when the effect ran.
Unmount ==
    /\ phase = "mounted"
    /\ ~effectsPending
    /\ \E detached \in BOOLEAN :
          disposeCalls' =
              Dispose(IF detached THEN Null ELSE cameraRef, disposeCalls)
    /\ listeners' = KeyListenerCleanup(listeners, effCbs[1])
    /\ camListeners' = CamListenerCleanup(camListeners, controls)
    /\ cameraRef' = Null
    /\ phase' = "unmounted"
    /\ UNCHANGED <<mode, animated, controls, left, renderGen, cbs, effCbs,
                   modeDep, camDep, effectsPending, spaceDown, spaceHandled,
                   truck, panCount, holdEvents, invalidates, frames>>
    /\ UNCHANGED rendererVars

\* The key, lifecycle and camera actions read and write nothing the pan
\* actions write (truck, panCount, holdEvents), and the pan actions write
\* nothing the others read but invalidates: the two groups are checked apart.
Next ==
    \/ Mount
    \/ Render
    \/ FlushEffects
    \/ KeyDown
    \/ KeyUp
    \/ CameraEvent
    \/ Frame
    \/ Unmount

NextPan ==
    \/ Mount
    \/ Render
    \/ FlushEffects
    \/ PanHandle
    \/ Holding
    \/ Unmount

\* GraphRenderer before any call, with no node
RendererIdle ==
    /\ nodes = <<>>
    /\ onNodeClick = FALSE
    /\ call = NoCall
    /\ log = <<>>
    /\ thrown = NoError

\* Controls before it is mounted, outside any other controls context
ControlsIdle == InitControls /\ controls = FALSE

Init == RendererIdle /\ InitControls

\* Controls: mode, Space, listeners, lifecycle
Spec == Init /\ [][Next]_vars

\* Controls: the pan handles and the arrow key hold events
SpecPan == Init /\ [][NextPan]_vars

InitR == InitRenderer /\ ControlsIdle

\* GraphRenderer
SpecRenderer == InitR /\ [][NextRenderer]_vars

(***************************************************************************)
(* Properties of GraphRenderer, checked under SpecRenderer                 *)
(***************************************************************************)
\* ids of the nodes currently in the graph
GraphIds == {nodes[i].id : i \in 1..Len(nodes)}

\* positions of the given list whose id is the id of no node of the graph
MissingAt == {i \in 1..Len(call.ids) : call.ids[i] \notin GraphIds}

\* C1: centerGraph(ids) with a non-empty list of ids that are all ids of
\* nodes of the graph calls centerNodes exactly once, with one node object
\* of the graph per given id, in the order given, duplicates included, and
\* ends in no error.
C1_CenterGraphCentersGivenNodes ==
    (call.op = "centerGraph" /\ call.given /\ Len(call.ids) > 0
        /\ MissingAt = {})
    => /\ ~thrown.raised
       /\ Len(log) = 1
       /\ log[1].fn = "centerNodes"
       /\ Len(log[1].list) = Len(call.ids)
       /\ \A i \in 1..Len(call.ids) :
             /\ log[1].list[i] \in Range(nodes)
             /\ log[1].list[i].id = call.ids[i]

\* C1 happens: three valid ids, the first given twice, on a graph of two nodes
C1_Witness ==
    /\ call.op = "centerGraph" /\ call.given
    /\ Len(nodes) = 2
    /\ Len(call.ids) = 3
    /\ MissingAt = {}
    /\ call.ids[1] = call.ids[3]
    /\ call.ids[1] # call.ids[2]
    /\ Len(log) = 1

\* C2: centerGraph(ids) with at least one id that is the id of no node ends
\* in an error naming the first such id of the list, and calls centerNodes
\* not at all.
C2_MissingIdThrowsFirst ==
    (call.op = "centerGraph" /\ call.given /\ MissingAt # {})
    => /\ thrown.raised
       /\ thrown.id = call.ids[CHOOSE i \in MissingAt :
                                   \A j \in MissingAt : i <= j]
       /\ log = <<>>

\* C2 happens: a valid id, then two different missing ids
C2_Witness ==
    /\ call.op = "centerGraph" /\ call.given
    /\ Len(call.ids) = 3
    /\ MissingAt = {2, 3}
    /\ call.ids[2] # call.ids[3]
    /\ thrown.raised

\* C3: centerGraph with no id list, or with an empty one, calls centerNodes
\* exactly once with the full list of the graph's nodes.
C3_NoOrEmptyListCentersAll ==
    (call.op = "centerGraph" /\ (~call.given \/ Len(call.ids) = 0))
    => /\ ~thrown.raised
       /\ log = <<CenterNodesCall(nodes)>>

\* C4: a click on the node n calls onNodeClick (when provided) with n's id
\* first and then centerNodes with the list holding exactly n; without
\* onNodeClick the centering still happens; no other node is reported or
\* centered.
C4_ClickReportsThenCenters ==
    call.op = "click"
    => LET n == call.node[1]
       IN  /\ ~thrown.raised
           /\ Len(log) = (IF onNodeClick THEN 2 ELSE 1)
           /\ log[Len(log)].fn = "centerNodes"
           /\ log[Len(log)].list = <<n>>
           /\ onNodeClick => (log[1].fn = "onNodeClick" /\ log[1].id = n.id)

\* C4 happens: a click on the second of two nodes, with onNodeClick provided
C4_Witness ==
    /\ call.op = "click"
    /\ onNodeClick
    /\ Len(nodes) = 2
    /\ call.node = <<nodes[2]>>
    /\ Len(log) = 2

(***************************************************************************)
(* Properties of Controls, checked under Spec and SpecPan                  *)
(***************************************************************************)
\* Controls is mounted and the effects of its latest render have run
Settled == phase = "mounted" /\ ~effectsPending

\* C5: while Controls is mounted, its effects have run and Space is not
\* held, the left button action is ROTATE when mode is 'rotate' and TRUCK
\* otherwise; a key other than Space never changes the action.
C5_LeftFollowsMode ==
    /\ []((Settled /\ ~spaceHandled)
            => /\ mode = "rotate" => left = "ROTATE"
               /\ mode # "rotate" => left = "TRUCK")
    /\ [][(KeyDownCode("KeyA") \/ KeyUpCode("KeyA")) => left' = left]_vars

\* C5 happens: a re-render changed mode to 'pan' (onKeyUp was recreated),
\* its effects have run and Space is not held
C5_Witness ==
    /\ Settled
    /\ mode = "pan"
    /\ cbs.onKeyUp.gen >= 2
    /\ ~spaceDown /\ ~spaceHandled
    /\ left = "TRUCK"

\* C6: while Space is held (its keydown was handled, its keyup was not) the
\* left button action is the opposite of the mode's: TRUCK when mode is
\* 'rotate' and ROTATE otherwise, also when mode changes meanwhile. Stated
\* for the states in which the effects of the latest render have run.
C6_SpaceSwapsAction ==
    (Settled /\ spaceHandled)
    => /\ mode = "rotate" => left = "TRUCK"
       /\ mode # "rotate" => left = "ROTATE"

\* C7: panLeft and panRight truck by the same step in opposite horizontal
\* directions and not vertically, panUp and panDown by the same step in
\* opposite vertical directions and not horizontally; each call invalidates
\* exactly once; pan calls in which each direction is called as often as
\* its opposite leave the net displacement at zero.
C7_PanHandlesInverse ==
    /\ []((holdEvents = 0
             /\ panCount["panLeft"] = panCount["panRight"]
             /\ panCount["panUp"] = panCount["panDown"])
            => truck = [x |-> 0, y |-> 0])
    /\ [][\A fn \in PanFns :
            panCount'[fn] = panCount[fn] + 1
            => LET dx == truck'.x - truck.x
                   dy == truck'.y - truck.y
               IN  /\ invalidates' = invalidates + 1
                   /\ fn = "panLeft" => (dx = 3 /\ dy = 0)
                   /\ fn = "panRight" => (dx = -3 /\ dy = 0)
                   /\ fn = "panUp" => (dx = 0 /\ dy = 3)
                   /\ fn = "panDown" => (dx = 0 /\ dy = -3)]_vars

\* C7 happens: each of the four handles was called once
C7_Witness ==
    /\ holdEvents = 0
    /\ \A fn \in PanFns : panCount[fn] = 1
    /\ invalidates = 4
    /\ truck = [x |-> 0, y |-> 0]

\* C8: while Controls is mounted with an instance, invalidate is a listener
\* of the instance's 'update' and 'control' events; the listeners are
\* removed when the component unmounts.
C8_InvalidateListensToCamera ==
    /\ (Settled /\ cameraRef # Null)
          => /\ "invalidate" \in Range(camListeners.update)
             /\ "invalidate" \in Range(camListeners.control)
    /\ phase = "unmounted" => camListeners = NoCamListeners

\* C9: after any re-renders, each hold emitter carries exactly one
\* 'holding' listener and window exactly one 'keydown' and one 'keyup'
\* listener, each the callback of the latest render, closing over the
\* current props; after unmount none is left.
C9_OneFreshListenerEach ==
    /\ Settled
          => /\ listeners.left = <<cbs.panLeft>>
             /\ listeners.right = <<cbs.panRight>>
             /\ listeners.up = <<cbs.panUp>>
             /\ listeners.down = <<cbs.panDown>>
             /\ listeners.keydown = <<cbs.onKeyDown>>
             /\ listeners.keyup = <<cbs.onKeyUp>>
             /\ \A k \in {"keydown", "keyup"} :
                   listeners[k][1].mode = mode
             /\ \A k \in {"left", "right", "up", "down"} :
                   listeners[k][1].animated = animated
    /\ phase = "unmounted"
          => \A k \in DOMAIN listeners : listeners[k] = <<>>

\* C9 happens: mode and animated were changed by different re-renders
C9_Witness ==
    /\ Settled
    /\ renderGen = 3
    /\ cbs.panLeft.gen = 2
    /\ cbs.onKeyDown.gen = 3
    /\ Len(listeners.keyup) = 1

\* C10: the instance is never disposed while Controls is mounted, is
\* disposed exactly once when it unmounts, and no update(delta) is issued
\* to it after the unmount.
C10_DisposedOnceOnUnmount ==
    /\ phase = "mounted" => disposeCalls = 0
    /\ phase = "unmounted" => (disposeCalls = 1 /\ ~ENABLED Frame)

====
